---- MODULE Spec2Model ----
(***************************************************************************)
(* State-machine model of the blog API of src/main.py (FastAPI handlers    *)
(* over a relational store) with the request schemas of src/schemas.py.    *)
(*                                                                         *)
(* An optional (nullable) value is a sequence of length at most one:       *)
(* None == <<>> is Python's None / JSON null, Some(v) == <<v>> is v.       *)
(* A request body of an Update schema is a record with the field "set"     *)
(* (pydantic's model_fields_set) and one field per schema field holding    *)
(* the parsed value, None when the field is unset (its default).           *)
(***************************************************************************)
EXTENDS Integers, Sequences, FiniteSets, TLC

VARIABLES
    users,   \* table "users":  id -> [username, email, image_file]
    posts,   \* table "posts":  id -> [title, content, published, user_id, date_posted]
    last,    \* the response being emitted: handler, path, outcome, response
    req,     \* the request received and not yet handled (None: no request)
    reqs     \* concurrent specification: the request of each connection

vars == <<users, posts, last, req, reqs>>

----------------------------------------------------------------------------
(* Bounds of the model *)

MaxUsers == 2
MaxPosts == 2
RecursionLimit == 3

----------------------------------------------------------------------------
(* Values *)

None == <<>>
Some(v) == <<v>>

\* the string of n characters "x"
RECURSIVE Rep(_)
Rep(n) ==
    IF n = 0 THEN ""
    ELSE LET half == Rep(n \div 2)
         IN  IF n % 2 = 0 THEN half \o half ELSE half \o half \o "x"

UsernameMaxLen == 50
ImageFileMaxLen == 200
TitleMaxLen == 255

Max(S) == IF S = {} THEN 0 ELSE CHOOSE x \in S : \A y \in S : y <= x

\* str.startswith
startswith(s, prefix) ==
    Len(s) >= Len(prefix) /\ SubSeq(s, 1, Len(prefix)) = prefix

----------------------------------------------------------------------------
(* Outcomes of a handler and responses of the application *)

Return(code) == [type |-> "return", status_code |-> code, detail |-> ""]

HTTPException(code, detail) ==
    [type |-> "HTTPException", status_code |-> code, detail |-> detail]

RequestValidationError ==
    [type |-> "RequestValidationError", status_code |-> 0, detail |-> "validation"]

\* sqlalchemy.exc.IntegrityError raised by commit; no handler catches it
IntegrityError ==
    [type |-> "IntegrityError", status_code |-> 0, detail |-> "constraint failed"]

Response(code, kind, detail) ==
    [status_code |-> code, kind |-> kind, detail |-> detail]

\* an exception no registered handler converts: the server's 500 response
ServerError == Response(500, "text", "Internal Server Error")

\* The bindings of the handler names in the namespace of module main, in
\* the order they are executed: the import, then the def that rebinds it.
ModuleBindings ==
    << [name |-> "http_exception_handler", target |-> "fastapi"],
       [name |-> "request_validation_exception_handler", target |-> "fastapi"],
       [name |-> "http_exception_handler", target |-> "main"],
       [name |-> "validation_exception_handler", target |-> "main"] >>

\* global name lookup at call time: the latest binding of the name
Resolve(name) ==
    LET idx == {i \in 1..Len(ModuleBindings) : ModuleBindings[i].name = name}
    IN  ModuleBindings[Max(idx)].target

\* fastapi.exception_handlers.http_exception_handler
fastapi_http_exception_handler(exc) ==
    Response(exc.status_code, "json", exc.detail)

\* fastapi.exception_handlers.request_validation_exception_handler
fastapi_request_validation_exception_handler(exc) ==
    Response(422, "json", exc.detail)

RecursionError == Response(0, "RecursionError", "maximum recursion depth exceeded")

RECURSIVE http_exception_handler(_, _, _)
http_exception_handler(path, exc, depth) ==
    IF depth > RecursionLimit
    THEN RecursionError
    ELSE IF startswith(path, "/api")
         THEN IF Resolve("http_exception_handler") = "main"
              THEN http_exception_handler(path, exc, depth + 1)
              ELSE fastapi_http_exception_handler(exc)
         ELSE Response(exc.status_code, "html", exc.detail)

validation_exception_handler(path, exc) ==
    IF startswith(path, "/api")
    THEN IF Resolve("request_validation_exception_handler") = "main"
         THEN RecursionError
         ELSE fastapi_request_validation_exception_handler(exc)
    ELSE Response(422, "html",
             "Some fields contain invalid data. Please check your input and try again.")

\* What the application answers for the outcome of a handler.
Dispatch(path, outcome) ==
    LET r == CASE outcome.type = "return" ->
                      Response(outcome.status_code, "json", "")
               [] outcome.type = "HTTPException" ->
                      http_exception_handler(path, outcome, 0)
               [] outcome.type = "RequestValidationError" ->
                      validation_exception_handler(path, outcome)
               [] OTHER -> ServerError
    IN  IF r.kind = "RecursionError" THEN ServerError ELSE r

\* the record of a served request; removed is the set of post ids its
\* commit deleted
ServedRemoving(op, path, id, outcome, removed) ==
    last' = [op |-> op, path |-> path, outcome |-> outcome,
             response |-> Dispatch(path, outcome), removed |-> removed]

Served(op, path, id, outcome) == ServedRemoving(op, path, id, outcome, {})

----------------------------------------------------------------------------
(* The store *)

UsersWhere(tbl, field, v) == {i \in DOMAIN tbl : tbl[i][field] = v}

PostsOf(tbl, user_id) == {p \in DOMAIN tbl : tbl[p].user_id = user_id}

Without(tbl, ids) == [i \in DOMAIN tbl \ ids |-> tbl[i]]

\* a relationship that leaves the posts of a deleted user in place
Cascade_None(tbl, user_id) == tbl

\* the posts left when user_id is deleted: the relationship User.posts
\* deletes the posts of the user with it
Cascade(tbl, user_id) == Without(tbl, PostsOf(tbl, user_id))

\* the identifier the store assigns to a new row
NextId(tbl) == Max(DOMAIN tbl) + 1

\* the unique constraints on users.username and users.email: would writing
\* row under id break one?
\* a store without the unique constraints
UniqueViolation_None(tbl, id, row) == FALSE

UniqueViolation(tbl, id, row) ==
    \E j \in DOMAIN tbl \ {id} :
        tbl[j].username = row.username \/ tbl[j].email = row.email

----------------------------------------------------------------------------
(* Schemas of the user bodies *)

UserCreate(body) ==
    /\ Len(body.username) >= 1
    /\ Len(body.username) <= UsernameMaxLen

UserUpdate(body) ==
    /\ body.username # None =>
          Len(body.username[1]) >= 1 /\ Len(body.username[1]) <= UsernameMaxLen
    /\ body.image_file # None =>
          Len(body.image_file[1]) >= 1 /\ Len(body.image_file[1]) <= ImageFileMaxLen

----------------------------------------------------------------------------
(* User handlers, each run to completion *)

\* db.add(new_user); db.commit()
CommitNewUser(op, path, row) ==
    LET id == NextId(users) IN
    IF UniqueViolation(users, id, row)
    THEN users' = users /\ Served(op, path, 0, IntegrityError)
    ELSE users' = (id :> row) @@ users /\ Served(op, path, id, Return(201))

\* create_user without the lookup by email
create_user_NoEmailLookup(user) ==
    LET path == "/api/users" IN
    /\ UNCHANGED posts
    /\ IF UsersWhere(users, "username", user.username) # {}
       THEN /\ users' = users
            /\ Served("create_user", path, 0,
                      HTTPException(400, "Username already exists"))
       ELSE CommitNewUser("create_user", path,
                [username |-> user.username, email |-> user.email,
                 image_file |-> None])

create_user(user) ==
    LET path == "/api/users" IN
    /\ UNCHANGED posts
    /\ IF UsersWhere(users, "username", user.username) # {}
       THEN /\ users' = users
            /\ Served("create_user", path, 0,
                      HTTPException(400, "Username already exists"))
       ELSE IF UsersWhere(users, "email", user.email) # {}
       THEN /\ users' = users
            /\ Served("create_user", path, 0,
                      HTTPException(400, "Email already registered"))
       ELSE CommitNewUser("create_user", path,
                [username |-> user.username, email |-> user.email,
                 image_file |-> None])

\* the assignments of update_user to the loaded row
AssignUser(user, user_update) ==
    [username   |-> IF user_update.username # None
                    THEN user_update.username[1] ELSE user.username,
     email      |-> IF user_update.email # None
                    THEN user_update.email[1] ELSE user.email,
     image_file |-> IF user_update.image_file # None
                    THEN user_update.image_file ELSE user.image_file]

\* db.commit() of a changed user row
CommitUser(op, path, id, row) ==
    IF UniqueViolation(users, id, row)
    THEN users' = users /\ Served(op, path, id, IntegrityError)
    ELSE users' = [users EXCEPT ![id] = row] /\ Served(op, path, id, Return(200))

\* update_user with the two lookups in the other order
update_user_EmailFirst(user_id, user_update) ==
    LET path == "/api/users/{user_id}" IN
    /\ UNCHANGED posts
    /\ IF user_id \notin DOMAIN users
       THEN /\ users' = users
            /\ Served("update_user", path, user_id,
                      HTTPException(404, "User not found"))
       ELSE LET user == users[user_id] IN
            IF /\ user_update.email # None
               /\ user_update.email[1] # user.email
               /\ UsersWhere(users, "email", user_update.email[1]) # {}
            THEN /\ users' = users
                 /\ Served("update_user", path, user_id,
                           HTTPException(400, "Email already registered"))
            ELSE IF /\ user_update.username # None
                    /\ user_update.username[1] # user.username
                    /\ UsersWhere(users, "username", user_update.username[1]) # {}
            THEN /\ users' = users
                 /\ Served("update_user", path, user_id,
                           HTTPException(400, "Username already exists"))
            ELSE CommitUser("update_user", path, user_id,
                            AssignUser(user, user_update))

update_user(user_id, user_update) ==
    LET path == "/api/users/{user_id}" IN
    /\ UNCHANGED posts
    /\ IF user_id \notin DOMAIN users
       THEN /\ users' = users
            /\ Served("update_user", path, user_id,
                      HTTPException(404, "User not found"))
       ELSE LET user == users[user_id] IN
            IF /\ user_update.username # None
               /\ user_update.username[1] # user.username
               /\ UsersWhere(users, "username", user_update.username[1]) # {}
            THEN /\ users' = users
                 /\ Served("update_user", path, user_id,
                           HTTPException(400, "Username already exists"))
            ELSE IF /\ user_update.email # None
                    /\ user_update.email[1] # user.email
                    /\ UsersWhere(users, "email", user_update.email[1]) # {}
            THEN /\ users' = users
                 /\ Served("update_user", path, user_id,
                           HTTPException(400, "Email already registered"))
            ELSE CommitUser("update_user", path, user_id,
                            AssignUser(user, user_update))

\* db.delete(user); db.commit(): the posts of the user go with it
delete_user(user_id) ==
    LET path == "/api/users/{user_id}" IN
    /\ IF user_id \notin DOMAIN users
       THEN /\ UNCHANGED <<users, posts>>
            /\ Served("delete_user", path, user_id,
                      HTTPException(404, "User not found"))
       ELSE /\ users' = Without(users, {user_id})
            /\ posts' = Cascade(posts, user_id)
            /\ ServedRemoving("delete_user", path, user_id, Return(204),
                              DOMAIN posts \ DOMAIN Cascade(posts, user_id))

\* a body the schema rejects never reaches the handler
Rejected(op, path, id) ==
    /\ UNCHANGED <<users, posts>>
    /\ Served(op, path, id, RequestValidationError)

----------------------------------------------------------------------------
(* Schemas of the post bodies *)

PostFields == {"title", "content", "published"}

\* PostBase: title and content are required strings, published a bool
\* that defaults to False; PostCreate adds the required int user_id.
PostCreate(body) ==
    /\ {"title", "content", "user_id"} \subseteq body.set
    /\ body.title # None
    /\ Len(body.title[1]) >= 1 /\ Len(body.title[1]) <= TitleMaxLen
    /\ body.content # None
    /\ Len(body.content[1]) >= 1
    /\ "published" \in body.set => body.published # None
    /\ body.user_id # None

\* the validated PostCreate object
PostCreateObject(body) ==
    [title     |-> body.title[1],
     content   |-> body.content[1],
     published |-> IF "published" \in body.set THEN body.published[1] ELSE FALSE,
     user_id   |-> body.user_id[1]]

\* PostUpdate: every field optional and nullable
PostUpdate(body) ==
    /\ body.title # None =>
          Len(body.title[1]) >= 1 /\ Len(body.title[1]) <= TitleMaxLen
    /\ body.content # None => Len(body.content[1]) >= 1

\* post_data.model_dump(exclude_unset=True): the fields of the body that
\* were set, with their values
\* post_data.model_dump(): every field, the unset ones with their default
model_dump(body) == [f \in PostFields |-> body[f]]

model_dump_exclude_unset(body) == [f \in body.set |-> body[f]]

----------------------------------------------------------------------------
(* Post handlers, each run to completion *)

\* the value of posts.published of a row inserted without one
PublishedDefault == Some(FALSE)

create_post(post, now) ==
    LET path == "/api/posts" IN
    /\ UNCHANGED users
    /\ IF post.user_id \notin DOMAIN users
       THEN /\ posts' = posts
            /\ Served("create_post", path, 0,
                      HTTPException(404, "User not found"))
       ELSE LET id == NextId(posts) IN
            /\ posts' = (id :> [title |-> Some(post.title),
                                content |-> Some(post.content),
                                published |-> PublishedDefault,
                                user_id |-> post.user_id,
                                date_posted |-> now]) @@ posts
            /\ Served("create_post", path, id, Return(201))

get_post(post_id) ==
    /\ UNCHANGED <<users, posts>>
    /\ IF post_id \in DOMAIN posts
       THEN Served("get_post", "/api/posts/{post_id}", post_id, Return(200))
       ELSE Served("get_post", "/api/posts/{post_id}", post_id,
                   HTTPException(404, "Post not found"))

\* the page of a post
post_detail(post_id) ==
    /\ UNCHANGED <<users, posts>>
    /\ IF post_id \in DOMAIN posts
       THEN Served("post_detail", "/posts/{post_id}", post_id, Return(200))
       ELSE Served("post_detail", "/posts/{post_id}", post_id,
                   HTTPException(404, "Post not found"))

\* update_post_full without the lookup of the new owner
update_post_full_NoUserLookup(post_id, post_data) ==
    LET path == "/api/posts/{post_id}" IN
    /\ UNCHANGED users
    /\ IF post_id \notin DOMAIN posts
       THEN /\ posts' = posts
            /\ Served("update_post_full", path, post_id,
                      HTTPException(404, "Post not found"))
       ELSE /\ posts' = [posts EXCEPT ![post_id].title = Some(post_data.title),
                                      ![post_id].content = Some(post_data.content),
                                      ![post_id].user_id = post_data.user_id]
            /\ Served("update_post_full", path, post_id, Return(200))

update_post_full(post_id, post_data) ==
    LET path == "/api/posts/{post_id}" IN
    /\ UNCHANGED users
    /\ IF post_id \notin DOMAIN posts
       THEN /\ posts' = posts
            /\ Served("update_post_full", path, post_id,
                      HTTPException(404, "Post not found"))
       ELSE IF /\ post_data.user_id # posts[post_id].user_id
               /\ post_data.user_id \notin DOMAIN users
       THEN /\ posts' = posts
            /\ Served("update_post_full", path, post_id,
                      HTTPException(404, "User not found"))
       ELSE /\ posts' = [posts EXCEPT ![post_id].title = Some(post_data.title),
                                      ![post_id].content = Some(post_data.content),
                                      ![post_id].user_id = post_data.user_id]
            /\ Served("update_post_full", path, post_id, Return(200))

\* for field, value in update_data.items(): setattr(post, field, value)
SetAttrs(post, update_data) ==
    [f \in DOMAIN post |->
        IF f \in DOMAIN update_data THEN update_data[f] ELSE post[f]]

update_post_partial(post_id, post_data) ==
    LET path == "/api/posts/{post_id}" IN
    /\ UNCHANGED users
    /\ IF post_id \notin DOMAIN posts
       THEN /\ posts' = posts
            /\ Served("update_post_partial", path, post_id,
                      HTTPException(404, "Post not found"))
       ELSE /\ posts' = [posts EXCEPT ![post_id] =
                            SetAttrs(@, model_dump_exclude_unset(post_data))]
            /\ Served("update_post_partial", path, post_id, Return(200))

delete_post(post_id) ==
    LET path == "/api/posts/{post_id}" IN
    /\ UNCHANGED users
    /\ IF post_id \notin DOMAIN posts
       THEN /\ posts' = posts
            /\ Served("delete_post", path, post_id,
                      HTTPException(404, "Post not found"))
       ELSE /\ posts' = Without(posts, {post_id})
            /\ ServedRemoving("delete_post", path, post_id, Return(204),
                              {post_id})

----------------------------------------------------------------------------
(* Inputs *)

Usernames == {"al", "bo", "cy"}
Emails == {"a@x.io", "b@x.io", "c@x.io"}
ImageFiles == {"pic.png"}

Opt(S) == {None} \cup {Some(v) : v \in S}

UserIds == 1..MaxUsers

UserCreateBodies ==
    [username : Usernames \cup {"", Rep(UsernameMaxLen + 1)}, email : Emails]

\* every body the JSON of a PATCH can carry: a field is unset, null or a value
UserUpdateBodies ==
    {b \in [set : SUBSET {"username", "email", "image_file"},
            username : Opt(Usernames \cup {""}),
            email : Opt(Emails),
            image_file : Opt(ImageFiles)] :
        \A f \in {"username", "email", "image_file"} :
            f \notin b.set => b[f] = None}

Titles == {"t1", "t2"}
Contents == {"c1"}
Times == {1, 2}
PostIds == 1..MaxPosts

\* a JSON body of the given fields: absent fields are unset
Body(fields) ==
    [f \in {"set", "title", "content", "published", "user_id"} |->
        IF f = "set" THEN DOMAIN fields
        ELSE IF f \in DOMAIN fields THEN fields[f] ELSE None]

\* the bodies the schema PostCreate accepts
ValidPostCreateBodies ==
    {Body(("title" :> Some(t)) @@ ("content" :> Some(c)) @@ ("user_id" :> Some(u))) :
        t \in Titles, c \in Contents, u \in UserIds}
    \cup
    {Body(("title" :> Some(t)) @@ ("content" :> Some(c)) @@ ("user_id" :> Some(u))
          @@ ("published" :> Some(p))) :
        t \in Titles, c \in Contents, u \in UserIds, p \in BOOLEAN}

\* bodies it rejects: a required field missing or null, a length out of range
InvalidPostCreateBodies ==
    {Body(("content" :> Some("c1")) @@ ("user_id" :> Some(1))),
     Body(("title" :> None) @@ ("content" :> Some("c1")) @@ ("user_id" :> Some(1))),
     Body(("title" :> Some("")) @@ ("content" :> Some("c1")) @@ ("user_id" :> Some(1))),
     Body(("title" :> Some(Rep(TitleMaxLen + 1))) @@ ("content" :> Some("c1"))
          @@ ("user_id" :> Some(1))),
     Body(("title" :> Some("t1")) @@ ("content" :> Some("")) @@ ("user_id" :> Some(1))),
     Body(("title" :> Some("t1")) @@ ("content" :> Some("c1"))),
     Body(("title" :> Some("t1")) @@ ("content" :> Some("c1")) @@ ("user_id" :> Some(1))
          @@ ("published" :> None))}

PostCreateBodies == ValidPostCreateBodies \cup InvalidPostCreateBodies

\* every body the JSON of a PATCH can carry: a field is unset, null or a value
PostUpdateBodies ==
    {b \in [set : SUBSET PostFields,
            title : Opt(Titles \cup {""}),
            content : Opt(Contents \cup {""}),
            published : Opt(BOOLEAN)] :
        \A f \in PostFields : f \notin b.set => b[f] = None}

\* the bodies of the specification of deletion: one title, every owner
OwnerBodies ==
    {Body(("title" :> Some("t1")) @@ ("content" :> Some("c1"))
          @@ ("user_id" :> Some(u))) : u \in UserIds}

\* those of the first user
FirstOwnerBodies == {b \in OwnerBodies : b.user_id = Some(1)}

PublishBodies ==
    {[set |-> {"published"}, title |-> None, content |-> None,
      published |-> Some(TRUE)],
     [set |-> {"title"}, title |-> Some("t2"), content |-> None,
      published |-> None]}

\* the authors of the post specifications
AuthorBodies ==
    {[username |-> "al", email |-> "a@x.io"],
     [username |-> "bo", email |-> "b@x.io"]}

----------------------------------------------------------------------------
(* The life of a request: received, handled to completion, response emitted *)

\* the connections of the concurrent specification, each serving one request
Conns == {"c1", "c2"}

NoRequest == [op |-> "none", id |-> 0, body |-> None, pc |-> "idle",
              user |-> None, outcome |-> Return(0)]

Idle == [op |-> "none", path |-> "", outcome |-> Return(0),
         response |-> Response(0, "none", ""), removed |-> {}]

Init ==
    /\ users = << >>
    /\ posts = << >>
    /\ last = Idle
    /\ req = None
    /\ reqs = [c \in Conns |-> NoRequest]

Receive(op, id, body) ==
    /\ req = None
    /\ last = Idle
    /\ req' = Some([op |-> op, id |-> id, body |-> body])
    /\ UNCHANGED <<users, posts, last, reqs>>

Emit ==
    /\ last # Idle
    /\ last' = Idle
    /\ UNCHANGED <<users, posts, req, reqs>>

Handling(op) == req # None /\ req[1].op = op

Handled == req' = None /\ UNCHANGED reqs

post_api_users ==
    /\ Handling("create_user")
    /\ Handled
    /\ IF UserCreate(req[1].body)
       THEN create_user(req[1].body)
       ELSE Rejected("create_user", "/api/users", 0)

patch_api_users ==
    /\ Handling("update_user")
    /\ Handled
    /\ IF UserUpdate(req[1].body)
       THEN update_user(req[1].id, req[1].body)
       ELSE Rejected("update_user", "/api/users/{user_id}", req[1].id)

delete_api_users ==
    /\ Handling("delete_user")
    /\ Handled
    /\ delete_user(req[1].id)

post_api_posts ==
    /\ Handling("create_post")
    /\ Handled
    /\ IF PostCreate(req[1].body)
       THEN create_post(PostCreateObject(req[1].body), req[1].id)
       ELSE Rejected("create_post", "/api/posts", 0)

get_api_posts ==
    /\ Handling("get_post")
    /\ Handled
    /\ get_post(req[1].id)

get_posts_page ==
    /\ Handling("post_detail")
    /\ Handled
    /\ post_detail(req[1].id)

put_api_posts ==
    /\ Handling("update_post_full")
    /\ Handled
    /\ IF PostCreate(req[1].body)
       THEN update_post_full(req[1].id, PostCreateObject(req[1].body))
       ELSE Rejected("update_post_full", "/api/posts/{post_id}", req[1].id)

patch_api_posts ==
    /\ Handling("update_post_partial")
    /\ Handled
    /\ IF PostUpdate(req[1].body)
       THEN update_post_partial(req[1].id, req[1].body)
       ELSE Rejected("update_post_partial", "/api/posts/{post_id}", req[1].id)

delete_api_posts ==
    /\ Handling("delete_post")
    /\ Handled
    /\ delete_post(req[1].id)

HasRoom(tbl, max) == Cardinality(DOMAIN tbl) < max

----------------------------------------------------------------------------
(* Specification of the user resource *)

NextUsers ==
    \/ \E body \in UserCreateBodies :
          HasRoom(users, MaxUsers) /\ Receive("create_user", 0, body)
    \/ \E id \in UserIds, body \in UserUpdateBodies :
          Receive("update_user", id, body)
    \/ \E id \in UserIds : Receive("delete_user", id, None)
    \/ post_api_users
    \/ patch_api_users
    \/ delete_api_users
    \/ Emit

SpecUsers == Init /\ [][NextUsers]_vars

----------------------------------------------------------------------------
(* Specification of the post resource.  The request of create_post carries *)
(* in its id field the instant the store stamps on the new row.            *)

NextPosts ==
    \/ \E body \in AuthorBodies :
          HasRoom(users, MaxUsers) /\ Receive("create_user", 0, body)
    \/ \E body \in PostCreateBodies :
          HasRoom(posts, MaxPosts) /\ Receive("create_post", 1, body)
    \/ \E id \in PostIds, body \in PostCreateBodies :
          Receive("update_post_full", id, body)
    \/ \E id \in PostIds, body \in PostUpdateBodies :
          Receive("update_post_partial", id, body)
    \/ \E id \in PostIds : Receive("delete_post", id, None)
    \/ post_api_users
    \/ post_api_posts
    \/ put_api_posts
    \/ patch_api_posts
    \/ delete_api_posts
    \/ Emit

SpecPosts == Init /\ [][NextPosts]_vars

----------------------------------------------------------------------------
(* Specification of partial update: posts stamped at either instant *)

NextPatch ==
    \/ \E body \in AuthorBodies :
          HasRoom(users, MaxUsers) /\ Receive("create_user", 0, body)
    \/ \E body \in FirstOwnerBodies, now \in Times :
          HasRoom(posts, MaxPosts) /\ Receive("create_post", now, body)
    \/ \E id \in PostIds, body \in PostUpdateBodies :
          Receive("update_post_partial", id, body)
    \/ post_api_users
    \/ post_api_posts
    \/ patch_api_posts
    \/ Emit

SpecPatch == Init /\ [][NextPatch]_vars

----------------------------------------------------------------------------
(* Specification of deletion, ownership and error responses *)

NextCascade ==
    \/ \E body \in AuthorBodies :
          HasRoom(users, MaxUsers) /\ Receive("create_user", 0, body)
    \/ \E id \in UserIds : Receive("delete_user", id, None)
    \/ \E body \in OwnerBodies, now \in Times :
          HasRoom(posts, MaxPosts) /\ Receive("create_post", now, body)
    \/ \E id \in PostIds, body \in OwnerBodies :
          Receive("update_post_full", id, body)
    \/ \E id \in PostIds, body \in PublishBodies :
          Receive("update_post_partial", id, body)
    \/ \E id \in PostIds : Receive("get_post", id, None)
    \/ \E id \in PostIds : Receive("post_detail", id, None)
    \/ \E id \in PostIds : Receive("delete_post", id, None)
    \/ post_api_users
    \/ delete_api_users
    \/ post_api_posts
    \/ put_api_posts
    \/ patch_api_posts
    \/ get_api_posts
    \/ get_posts_page
    \/ delete_api_posts
    \/ Emit

SpecCascade == Init /\ [][NextCascade]_vars

----------------------------------------------------------------------------
(* Concurrent specification: two requests, each on a connection with a     *)
(* session of its own, interleave at the store round trips of create_user  *)
(* and update_user.  The store is first filled by requests served one at   *)
(* a time.                                                                 *)

AllIdle == \A c \in Conns : reqs[c].pc = "idle"

Accept(c, op, id, body) ==
    /\ req = None
    /\ last = Idle
    /\ reqs[c].pc = "idle"
    /\ reqs' = [reqs EXCEPT ![c] = [op |-> op, id |-> id, body |-> body,
                                    pc |-> "start", user |-> None,
                                    outcome |-> Return(0)]]
    /\ UNCHANGED <<users, posts, last, req>>

At(c, op, pc) == reqs[c].op = op /\ reqs[c].pc = pc

Goto(c, pc) ==
    /\ reqs' = [reqs EXCEPT ![c].pc = pc]
    /\ UNCHANGED <<users, posts, last, req>>

Done(c, outcome) ==
    /\ reqs' = [reqs EXCEPT ![c].pc = "done", ![c].outcome = outcome]
    /\ UNCHANGED <<posts, last, req>>

\* create_user: the lookup by username
create_user_username(c) ==
    /\ At(c, "create_user", "start")
    /\ IF UsersWhere(users, "username", reqs[c].body.username) # {}
       THEN /\ Done(c, HTTPException(400, "Username already exists"))
            /\ users' = users
       ELSE Goto(c, "email")

\* create_user: the lookup by email
create_user_email(c) ==
    /\ At(c, "create_user", "email")
    /\ IF UsersWhere(users, "email", reqs[c].body.email) # {}
       THEN /\ Done(c, HTTPException(400, "Email already registered"))
            /\ users' = users
       ELSE Goto(c, "commit")

\* create_user: db.add(new_user); db.commit()
create_user_commit(c) ==
    /\ At(c, "create_user", "commit")
    /\ LET id == NextId(users)
           row == [username |-> reqs[c].body.username,
                   email |-> reqs[c].body.email, image_file |-> None]
       IN  IF UniqueViolation(users, id, row)
           THEN Done(c, IntegrityError) /\ users' = users
           ELSE Done(c, Return(201)) /\ users' = (id :> row) @@ users

\* update_user: the lookup of the user by id
update_user_load(c) ==
    /\ At(c, "update_user", "start")
    /\ IF reqs[c].id \notin DOMAIN users
       THEN /\ Done(c, HTTPException(404, "User not found"))
            /\ users' = users
       ELSE /\ reqs' = [reqs EXCEPT ![c].pc = "username",
                                    ![c].user = Some(users[reqs[c].id])]
            /\ UNCHANGED <<users, posts, last, req>>

\* update_user: the lookup by username when the payload changes it
update_user_username(c) ==
    /\ At(c, "update_user", "username")
    /\ LET user == reqs[c].user[1]
           user_update == reqs[c].body
       IN  IF /\ user_update.username # None
              /\ user_update.username[1] # user.username
              /\ UsersWhere(users, "username", user_update.username[1]) # {}
           THEN /\ Done(c, HTTPException(400, "Username already exists"))
                /\ users' = users
           ELSE Goto(c, "email")

\* update_user: the lookup by email when the payload changes it
update_user_email(c) ==
    /\ At(c, "update_user", "email")
    /\ LET user == reqs[c].user[1]
           user_update == reqs[c].body
       IN  IF /\ user_update.email # None
              /\ user_update.email[1] # user.email
              /\ UsersWhere(users, "email", user_update.email[1]) # {}
           THEN /\ Done(c, HTTPException(400, "Email already registered"))
                /\ users' = users
           ELSE Goto(c, "commit")

\* update_user: the assignments and db.commit(), which writes the columns
\* whose value differs from the one loaded
update_user_commit(c) ==
    /\ At(c, "update_user", "commit")
    /\ LET id == reqs[c].id
           loaded == reqs[c].user[1]
           assigned == AssignUser(loaded, reqs[c].body)
           row == [f \in DOMAIN loaded |->
                      IF assigned[f] # loaded[f] THEN assigned[f]
                      ELSE users[id][f]]
       IN  IF UniqueViolation(users, id, row)
           THEN Done(c, IntegrityError) /\ users' = users
           ELSE Done(c, Return(200)) /\ users' = [users EXCEPT ![id] = row]

ConcCreateBodies == [username : {"al", "bo"}, email : {"a@x.io", "b@x.io"}]

ConcUpdateBodies ==
    {b \in [set : SUBSET {"username", "email"},
            username : Opt({"al", "bo"}),
            email : Opt({"a@x.io", "b@x.io"}),
            image_file : {None}] :
        \A f \in {"username", "email"} : (f \in b.set) <=> (b[f] # None)}

NextConc ==
    \/ \E body \in ConcCreateBodies :
          /\ AllIdle
          /\ HasRoom(users, MaxUsers)
          /\ Receive("create_user", 0, body)
    \/ AllIdle /\ post_api_users
    \/ AllIdle /\ Emit
    \/ \E c \in Conns, body \in ConcCreateBodies :
          Accept(c, "create_user", 0, body)
    \/ \E c \in Conns, id \in UserIds, body \in ConcUpdateBodies :
          Accept(c, "update_user", id, body)
    \/ \E c \in Conns : create_user_username(c)
    \/ \E c \in Conns : create_user_email(c)
    \/ \E c \in Conns : create_user_commit(c)
    \/ \E c \in Conns : update_user_load(c)
    \/ \E c \in Conns : update_user_username(c)
    \/ \E c \in Conns : update_user_email(c)
    \/ \E c \in Conns : update_user_commit(c)

SpecConc == Init /\ [][NextConc]_vars

----------------------------------------------------------------------------
(* Claims about the user resource, checked under SpecUsers *)

\* the handler of the request op is invoked in this step on a valid body
Invoked(op, valid) == Handling(op) /\ valid /\ req' = None

UsersUnique ==
    \A i, j \in DOMAIN users :
        i # j => users[i].username # users[j].username
                 /\ users[i].email # users[j].email

\* C1: after any sequence of create_user, update_user and delete_user
\* requests, each run to completion, no two distinct stored users share a
\* username and no two share an email; the lookups of the handlers alone
\* keep it so, no commit is ever refused by the store's unique constraints.
C1_UniqueUsers ==
    /\ UsersUnique
    /\ last.outcome.type # "IntegrityError"

\* two users are stored, one with a profile image, and an update_user has
\* just committed
C1_Witness ==
    /\ Cardinality(DOMAIN users) >= 2
    /\ \E i \in DOMAIN users : users[i].image_file # None
    /\ last.op = "update_user"
    /\ last.outcome = Return(200)

UsernameHeldByOther(id, name) ==
    \E j \in DOMAIN users \ {id} : users[j].username = name

EmailHeldByOther(id, email) ==
    \E j \in DOMAIN users \ {id} : users[j].email = email

Conflict(usernameCollides) ==
    HTTPException(400, IF usernameCollides THEN "Username already exists"
                       ELSE "Email already registered")

\* C2: create_user with a username or email a stored user holds, and
\* update_user changing the username or email of a user to one another
\* stored user holds, raise the failure of status 400 that names the
\* colliding field, the username before the email, and leave every stored
\* user and post as it was.
C2_ConflictLeavesStore ==
    [][ /\ Invoked("create_user", UserCreate(req[1].body)) =>
              LET body == req[1].body IN
              ( \/ UsernameHeldByOther(0, body.username)
                \/ EmailHeldByOther(0, body.email) )
              => /\ last'.outcome =
                        Conflict(UsernameHeldByOther(0, body.username))
                 /\ users' = users
                 /\ posts' = posts
        /\ ( /\ Invoked("update_user", UserUpdate(req[1].body))
             /\ req[1].id \in DOMAIN users ) =>
              LET body == req[1].body
                  id == req[1].id
                  nameCollides ==
                      /\ body.username # None
                      /\ body.username[1] # users[id].username
                      /\ UsernameHeldByOther(id, body.username[1])
                  emailCollides ==
                      /\ body.email # None
                      /\ body.email[1] # users[id].email
                      /\ EmailHeldByOther(id, body.email[1])
              IN  (nameCollides \/ emailCollides)
                  => /\ last'.outcome = Conflict(nameCollides)
                     /\ users' = users
                     /\ posts' = posts
      ]_vars

\* an update_user was refused because the new email is another user's
C2_Witness ==
    /\ last.op = "update_user"
    /\ last.outcome = HTTPException(400, "Email already registered")
    /\ Cardinality(DOMAIN users) >= 2

\* C8: a committed update_user leaves a field absent from the payload
\* untouched, sets a field present with a value to that value, and sets
\* the nullable image_file to null when the payload carries it as null.
C8_TriState ==
    [][ ( /\ Invoked("update_user", UserUpdate(req[1].body))
          /\ last'.outcome = Return(200) ) =>
          LET body == req[1].body
              id == req[1].id
          IN  /\ \A f \in {"username", "email"} :
                   users'[id][f] = IF f \in body.set /\ body[f] # None
                                   THEN body[f][1] ELSE users[id][f]
              /\ users'[id].image_file = IF "image_file" \in body.set
                                         THEN body.image_file
                                         ELSE users[id].image_file
      ]_vars

----------------------------------------------------------------------------
(* Claims about the post resource *)

\* C3: a full update that succeeds leaves the stored post with the
\* title, content, published (false when the body omits it) and user_id of
\* the validated body, whatever it stored before.
C3_FullUpdateOverwrites ==
    [][ ( /\ Invoked("update_post_full", PostCreate(req[1].body))
          /\ last'.outcome = Return(200) ) =>
          LET o == PostCreateObject(req[1].body)
              id == req[1].id
          IN  /\ posts'[id].title = Some(o.title)
              /\ posts'[id].content = Some(o.content)
              /\ posts'[id].published = Some(o.published)
              /\ posts'[id].user_id = o.user_id
      ]_vars

\* C4: a partial update of an existing post sets each of title, content
\* and published the payload carries to the payload's value and leaves as
\* they were the fields the payload lacks, the id, user_id and date_posted
\* of the post, every other post and every user.
C4_PartialUpdateFrame ==
    [][ ( /\ Invoked("update_post_partial", PostUpdate(req[1].body))
          /\ req[1].id \in DOMAIN posts ) =>
          LET body == req[1].body
              id == req[1].id
          IN  /\ last'.outcome = Return(200)
              /\ DOMAIN posts' = DOMAIN posts
              /\ \A f \in PostFields :
                    posts'[id][f] = IF f \in body.set THEN body[f]
                                    ELSE posts[id][f]
              /\ posts'[id].user_id = posts[id].user_id
              /\ posts'[id].date_posted = posts[id].date_posted
              /\ \A q \in DOMAIN posts \ {id} : posts'[q] = posts[q]
              /\ users' = users
      ]_vars

\* a partial update has just committed; of two stored posts one is
\* published and still has its title and content, the other is not
C4_Witness ==
    /\ last.op = "update_post_partial"
    /\ last.outcome = Return(200)
    /\ \E p, q \in DOMAIN posts :
          /\ posts[p].published = Some(TRUE)
          /\ posts[p].title = Some("t1")
          /\ posts[p].content = Some("c1")
          /\ posts[q].published = Some(FALSE)
          /\ posts[p].date_posted # posts[q].date_posted

\* C10: every stored post has a title of 1 to 255 characters, a non-empty
\* content and a published flag that is a boolean, none of them null.
C10_PostsValid ==
    \A p \in DOMAIN posts :
        /\ posts[p].title # None
        /\ Len(posts[p].title[1]) >= 1
        /\ Len(posts[p].title[1]) <= TitleMaxLen
        /\ posts[p].content # None
        /\ Len(posts[p].content[1]) >= 1
        /\ posts[p].published # None

----------------------------------------------------------------------------
(* Claims about deletion, ownership and error responses *)

\* C5: delete_user of a stored user succeeds whatever posts it owns and
\* removes exactly that user and the posts it owns; get_post of an id that
\* is not stored raises NotFound; an id that is not stored is stored again
\* only by a create_post.
C5_DeleteCascades ==
    [][ /\ ( /\ Invoked("delete_user", TRUE)
             /\ req[1].id \in DOMAIN users ) =>
              LET uid == req[1].id IN
              /\ last'.outcome = Return(204)
              /\ DOMAIN users' = DOMAIN users \ {uid}
              /\ \A u \in DOMAIN users' : users'[u] = users[u]
              /\ DOMAIN posts' = {p \in DOMAIN posts : posts[p].user_id # uid}
              /\ \A p \in DOMAIN posts' : posts'[p] = posts[p]
        /\ ( /\ Invoked("get_post", TRUE)
             /\ req[1].id \notin DOMAIN posts ) =>
              last'.outcome = HTTPException(404, "Post not found")
        /\ DOMAIN posts' \ DOMAIN posts # {} => Handling("create_post")
      ]_vars

\* a delete_user has just removed a user with its post while another
\* user and its post stay
C5_Witness ==
    /\ last.op = "delete_user"
    /\ last.outcome = Return(204)
    /\ last.removed # {}
    /\ DOMAIN users # {}
    /\ DOMAIN posts # {}

PostsOwned == \A p \in DOMAIN posts : posts[p].user_id \in DOMAIN users

OwnerChecked(existingPostOnly) ==
    /\ ( /\ Invoked("create_post", PostCreate(req[1].body))
         /\ req[1].body.user_id[1] \notin DOMAIN users ) =>
          /\ last'.outcome = HTTPException(404, "User not found")
          /\ posts' = posts
    /\ ( /\ Invoked("update_post_full", PostCreate(req[1].body))
         /\ req[1].body.user_id[1] \notin DOMAIN users
         /\ existingPostOnly => req[1].id \in DOMAIN posts ) =>
          /\ last'.outcome = HTTPException(404, "User not found")
          /\ posts' = posts
    /\ ( /\ Invoked("update_post_full", PostCreate(req[1].body))
         /\ req[1].id \notin DOMAIN posts ) =>
          /\ last'.outcome = HTTPException(404, "Post not found")
          /\ posts' = posts
    /\ ( /\ Invoked("update_post_partial", PostUpdate(req[1].body))
         /\ req[1].id \in DOMAIN posts ) =>
          posts'[req[1].id].user_id = posts[req[1].id].user_id
    /\ Invoked("delete_user", TRUE) => PostsOf(posts', req[1].id) = {}

\* C6 as stated: every stored post is owned by a stored user; create_post
\* and update_post_full with a user_id of no stored user raise NotFound
\* "User not found" and change no post; update_post_partial keeps the
\* owner; delete_user leaves no post of the deleted user.
C6_Original ==
    [][PostsOwned' /\ OwnerChecked(FALSE)]_vars

\* C6 amended: as stated, where update_post_full raises "User not found"
\* for a user_id of no stored user when the post exists; for a post id
\* that is not stored it raises NotFound "Post not found" and changes
\* nothing.
C6_PostsOwned ==
    [][PostsOwned' /\ OwnerChecked(TRUE)]_vars

\* a full update of a stored post has just been refused for its user_id
C6_Witness ==
    /\ last.op = "update_post_full"
    /\ last.outcome = HTTPException(404, "User not found")
    /\ DOMAIN posts # {}

\* C7: for a failure a handler raises, the application answers, on a path
\* under /api, JSON with the status code of the failure and its message as
\* detail, and on any other path the error page with that status code and
\* message.
C7_ErrorTranslated ==
    last.outcome.type = "HTTPException" =>
        last.response =
            IF startswith(last.path, "/api")
            THEN Response(last.outcome.status_code, "json", last.outcome.detail)
            ELSE Response(last.outcome.status_code, "html", last.outcome.detail)

----------------------------------------------------------------------------
(* Claim about concurrent requests, checked under SpecConc *)

Finished(c, op) == reqs[c].op = op /\ reqs[c].pc = "done"

Succeeded(c) == reqs[c].outcome.type = "return"

\* the create_user c and the request d aim at the same username or the
\* same email: d creates a user with it, or changes the one of the user it
\* loaded to it
SameTarget(c, d) ==
    \/ /\ reqs[d].op = "create_user"
       /\ \/ reqs[d].body.username = reqs[c].body.username
          \/ reqs[d].body.email = reqs[c].body.email
    \/ /\ reqs[d].op = "update_user"
       /\ reqs[d].user # None
       /\ \/ /\ reqs[d].body.username = Some(reqs[c].body.username)
             /\ reqs[d].user[1].username # reqs[c].body.username
          \/ /\ reqs[d].body.email = Some(reqs[c].body.email)
             /\ reqs[d].user[1].email # reqs[c].body.email

\* C9: however the lookups and commits of two concurrent requests
\* interleave, no two stored users share a username or an email, and of a
\* create_user and another create_user, or an update_user changing a
\* user to the same username or email, at most one succeeds.
C9_NoDuplicateUnderRace ==
    /\ UsersUnique
    /\ \A c, d \in Conns :
          ( /\ c # d
            /\ Finished(c, "create_user")
            /\ reqs[d].pc = "done"
            /\ SameTarget(c, d) )
          => ~(Succeeded(c) /\ Succeeded(d))

\* two create_user requests for one username both passed their lookups;
\* one was committed and the commit of the other was refused
C9_Witness ==
    \E c, d \in Conns :
        /\ Finished(c, "create_user")
        /\ Finished(d, "create_user")
        /\ reqs[c].body.username = reqs[d].body.username
        /\ reqs[c].outcome = Return(201)
        /\ reqs[d].outcome = IntegrityError

====
